---------------------------- MODULE Spec2Model ----------------------------
(***************************************************************************)
(* scrubkit-core: the format dispatcher (lib.rs), the segment-format      *)
(* engine JpegScrubber (jpeg.rs) and the chunk-format engine PngScrubber   *)
(* (png.rs).  Buffers are sequences of byte values 0..255; Rust's 0-based  *)
(* index i is the TLA+ index i + 1.                                        *)
(***************************************************************************)
EXTENDS Integers, Sequences, FiniteSets, TLC

VARIABLES
    input,      \* the caller's byte buffer, handed to a constructor
    npieces,    \* how many pieces the caller has put into the buffer
    scrubber,   \* the engine instance: which engine, and its file_bytes
    made,       \* the result of the last constructor / dispatcher call
    viewed,     \* the result of the last view_metadata() on the instance
    scrubbed,   \* the result of the last scrub() on the instance
    reopened,   \* how often an engine was constructed on cleaned_file_bytes
    stderr,     \* the lines the last call wrote to standard error
    calls,      \* per thread: the call it is inside of on the instance
    scan        \* the loop of find_exif_segment inside a scrub: position, offset, result

vars == <<input, npieces, scrubber, made, viewed, scrubbed, reopened, stderr, calls,
          scan>>

-----------------------------------------------------------------------------
(* Bounds of the model. *)

\* pieces a caller's segment-format buffer is assembled from
MaxJpegPieces == 4

\* pieces a caller's chunk-format buffer is assembled from
MaxPngPieces == 4

\* pieces a buffer handed to the dispatcher is assembled from
MaxDispatchPieces == 3

\* engines constructed in a row on a previous scrub's cleaned bytes
MaxReopen == 1

\* threads that share one engine instance
MaxThreads == 2

\* pieces the buffer of a shared instance is assembled from
MaxCallPieces == 2

\* pieces put behind FF D8 in a buffer whose scan is followed step by step
MaxScanPieces == 3

-----------------------------------------------------------------------------
(* Result<T, ScrubError> and Option<T>. *)

Pending == [kind |-> "pending"]

Ok(v) == [kind |-> "ok", val |-> v]

Err(e) == [kind |-> "err", err |-> e]

None == [some |-> FALSE]

Some(v) == [some |-> TRUE, val |-> v]

\* struct MetadataEntry
MetadataEntry(k, v, c) == [key |-> k, value |-> v, category |-> c]

\* struct ScrubResult
ScrubResult(bytes, removed) == [cleaned_file_bytes |-> bytes, metadata_removed |-> removed]

\* &b[from..to] with Rust's 0-based, end-exclusive bounds
Slice(b, from, to) == SubSeq(b, from + 1, to)

\* b[i] with Rust's 0-based index
At(b, i) == b[i + 1]

-----------------------------------------------------------------------------
(* jpeg.rs: the segment scan. *)

\* b"Exif\0\0"
ExifSig == <<69, 120, 105, 102, 0, 0>>

\* the must-match length threshold of the APP1 test, `length >= 6`
ExifMinLength == 6

\* Variant: the reported length leaves out the six identifier bytes.
ReportedLength_payload(length) == length - ExifMinLength

\* Variant: the reported length counts the two marker bytes as well.
ReportedLength_with_marker(length) == 2 + length

\* the value find_exif_segment returns as the segment's length
ReportedLength(length) == length

\* Variant: the scan trusts the length field.
RECURSIVE ScanFrom_trusting(_, _)
ScanFrom_trusting(b, offset) ==
    IF ~(offset + 4 <= Len(b)) THEN None
    ELSE IF At(b, offset) # 255 THEN None
    ELSE LET marker == At(b, offset + 1) IN
         IF marker \in 208..215 \/ marker = 1 THEN ScanFrom_trusting(b, offset + 2)
         ELSE IF marker = 217 \/ marker = 218 THEN None
         ELSE IF offset + 4 > Len(b) THEN None
         ELSE LET length == At(b, offset + 2) * 256 + At(b, offset + 3) IN
              IF /\ marker = 225
                 /\ length >= ExifMinLength
                 /\ offset + 4 + 6 <= Len(b)
                 /\ Slice(b, offset + 4, offset + 4 + 6) = ExifSig
              THEN Some([start |-> offset, length |-> ReportedLength(length)])
              ELSE ScanFrom_trusting(b, offset + 2 + length)

\* One pass of the `while` loop of find_exif_segment, from `offset` on.
RECURSIVE ScanFrom(_, _)
ScanFrom(b, offset) ==
    IF ~(offset + 4 <= Len(b)) THEN None
    ELSE IF At(b, offset) # 255 THEN None
    ELSE LET marker == At(b, offset + 1) IN
         IF marker \in 208..215 \/ marker = 1 THEN ScanFrom(b, offset + 2)
         ELSE IF marker = 217 \/ marker = 218 THEN None
         ELSE IF offset + 4 > Len(b) THEN None
         ELSE LET length == At(b, offset + 2) * 256 + At(b, offset + 3) IN
              IF length < 2 \/ offset + 2 + length > Len(b) THEN None
              ELSE IF /\ marker = 225
                      /\ length >= ExifMinLength
                      /\ offset + 4 + 6 <= Len(b)
                      /\ Slice(b, offset + 4, offset + 4 + 6) = ExifSig
                   THEN Some([start |-> offset, length |-> ReportedLength(length)])
                   ELSE ScanFrom(b, offset + 2 + length)

\* fn find_exif_segment(&self) -> Option<(usize, usize)>
find_exif_segment(b) == ScanFrom(b, 2)

-----------------------------------------------------------------------------
(* jpeg.rs: the tag-dictionary decoder view_metadata calls.  The decoder is *)
(* the external crate nom_exif; what is modelled is its walk to the first   *)
(* APP1 segment whose payload starts with the Exif identifier, and the      *)
(* entries of the first image file directory of the TIFF block inside.      *)

\* a 16-bit value at 0-based index i, big-endian when be
U16(b, i, be) ==
    IF be THEN At(b, i) * 256 + At(b, i + 1) ELSE At(b, i) + At(b, i + 1) * 256

\* a 32-bit value at 0-based index i, big-endian when be
U32(b, i, be) ==
    IF be THEN U16(b, i, be) * 65536 + U16(b, i + 2, be)
          ELSE U16(b, i, be) + U16(b, i + 2, be) * 65536

\* MediaSource::seekable: the media type is sniffed from the leading bytes
MediaSource_seekable(b) ==
    IF Len(b) >= 2 /\ Slice(b, 0, 2) = <<255, 216>>
    THEN Ok(b)
    ELSE Err("Failed to create MediaSource")

\* The decoder's own walk over the marker stream, from the start of the
\* buffer: SOI has no payload, every other marker carries a length that
\* counts itself, the walk ends at SOS.
RECURSIVE DecoderTravel(_, _)
DecoderTravel(b, offset) ==
    IF offset + 2 > Len(b) \/ At(b, offset) # 255 THEN None
    ELSE LET code == At(b, offset + 1) IN
         IF code = 216 THEN DecoderTravel(b, offset + 2)
         ELSE IF offset + 4 > Len(b) THEN None
         ELSE LET size == U16(b, offset + 2, TRUE) IN
              IF size < 2 \/ offset + 2 + size > Len(b) THEN None
              ELSE LET payload == Slice(b, offset + 4, offset + 2 + size) IN
                   IF code = 225 /\ Len(payload) >= 6 /\ SubSeq(payload, 1, 6) = ExifSig
                   THEN Some(payload)
                   ELSE IF code = 218 THEN None
                   ELSE DecoderTravel(b, offset + 2 + size)

\* bytes one value of a TIFF field type takes
TiffTypeSize(t) ==
    CASE t \in {1, 2, 6, 7} -> 1
      [] t \in {3, 8} -> 2
      [] t \in {4, 9, 11} -> 4
      [] t \in {5, 10, 12} -> 8
      [] OTHER -> 0

\* One directory entry: ParsedExifEntry { ifd_index(), tag(), get_value() }.
TiffEntry(t, e, be) ==
    LET size == TiffTypeSize(U16(t, e + 2, be)) * U32(t, e + 4, be)
        at   == U32(t, e + 8, be)
    IN [ifd_index |-> 0,
        tag       |-> U16(t, e, be),
        value     |-> IF size = 0 THEN None
                      ELSE IF size <= 4 THEN Some(Slice(t, e + 8, e + 8 + size))
                      ELSE IF at + size <= Len(t) THEN Some(Slice(t, at, at + size))
                      ELSE None]

\* The TIFF block: byte order, the magic 42, the directory offset, then the
\* directory's entries in file order.
TiffEntries(t) ==
    IF Len(t) < 8 THEN Err("no tiff header")
    ELSE IF ~(Slice(t, 0, 2) \in {<<77, 77>>, <<73, 73>>}) THEN Err("byte order")
    ELSE LET be == (At(t, 0) = 77) IN
         IF U16(t, 2, be) # 42 THEN Err("magic")
         ELSE LET ifd == U32(t, 4, be) IN
              IF ifd < 8 \/ ifd + 2 > Len(t) THEN Err("ifd offset")
              ELSE LET n == U16(t, ifd, be) IN
                   IF ifd + 2 + 12 * n > Len(t) THEN Err("ifd size")
                   ELSE Ok([i \in 1..n |-> TiffEntry(t, ifd + 2 + 12 * (i - 1), be)])

\* MediaParser::parse::<_, _, ExifIter>: an iterator over the tags, or an error
\* when the buffer holds no metadata container or one that does not decode.
MediaParser_parse(b) ==
    LET seg == DecoderTravel(b, 0) IN
    IF ~seg.some THEN Err("ExifNotFound")
    ELSE IF Len(seg.val) <= 6 THEN Err("ExifNotFound")
    ELSE TiffEntries(Slice(seg.val, 6, Len(seg.val)))

-----------------------------------------------------------------------------
(* jpeg.rs: impl Scrubber for JpegScrubber. *)

\* the key view_metadata gives every entry
TagName(entry) == "<Tag Name Unavailable>"

\* `match ifd_num { ... }`
IfdCategory(ifd_num) ==
    CASE ifd_num = 0 -> "IFD0"
      [] ifd_num = 1 -> "IFD1"
      [] ifd_num = 2 -> "EXIF"
      [] ifd_num = 3 -> "GPS"
      [] ifd_num = 4 -> "Interop"
      [] OTHER -> "IFD_" \o ToString(ifd_num)

\* format!("{:?}", value_ref), or "<No Value>"
ValueString(opt_value_ref) ==
    IF opt_value_ref.some THEN <<"Debug", opt_value_ref.val>> ELSE <<"<No Value>">>

\* the error JpegScrubber::new returns for a buffer it rejects
JpegNewError == "ParsingError"

\* fn new(file_bytes: Vec<u8>) -> Result<Self, ScrubError>
JpegScrubber_new(b) ==
    IF Len(b) < 2 \/ Slice(b, 0, 2) # <<255, 216>>
    THEN Err(JpegNewError)
    ELSE Ok([engine |-> "jpeg", file_bytes |-> b])

\* Variant: a decoder that finds no container makes view_metadata fail.
JpegScrubber_view_metadata_strict(b) ==
    LET Entries(exif_iter_result) ==
            IF exif_iter_result.kind = "err" THEN Err("ParsingError")
            ELSE LET exif_iter == exif_iter_result.val IN
                 Ok([i \in 1..Len(exif_iter) |->
                        MetadataEntry(TagName(exif_iter[i]),
                                      ValueString(exif_iter[i].value),
                                      IfdCategory(exif_iter[i].ifd_index))])
    IN IF MediaSource_seekable(b).kind = "err" THEN Err("ParsingError")
       ELSE Entries(MediaParser_parse(b))

\* fn view_metadata(&self) -> Result<Vec<MetadataEntry>, ScrubError>
JpegScrubber_view_metadata(b) ==
    LET Entries(exif_iter_result) ==
            IF exif_iter_result.kind = "err" THEN Ok(<<>>)
            ELSE LET exif_iter == exif_iter_result.val IN
                 Ok([i \in 1..Len(exif_iter) |->
                        MetadataEntry(TagName(exif_iter[i]),
                                      ValueString(exif_iter[i].value),
                                      IfdCategory(exif_iter[i].ifd_index))])
    IN IF MediaSource_seekable(b).kind = "err" THEN Err("ParsingError")
       ELSE Entries(MediaParser_parse(b))

\* metadata_removed of the `else` branch of scrub (no segment found)
JpegNotFoundRemoved(metadata_removed) == <<>>

\* Variant: a scan without a match makes scrub fail.
JpegScrubber_scrub_not_found_fails(b) ==
    LET Remove(metadata_removed, found) ==
            IF found.some
            THEN LET start_offset == found.val.start
                     segment_length == found.val.length
                     original_len == Len(b)
                     part2_start == start_offset + segment_length
                 IN IF part2_start > original_len
                    THEN Err("panic")
                    ELSE Ok(ScrubResult(Slice(b, 0, start_offset)
                                          \o Slice(b, part2_start, original_len),
                                        metadata_removed))
            ELSE Err("ParsingError")
        Viewed(view) ==
            IF view.kind = "err" THEN view
            ELSE Remove(view.val, find_exif_segment(b))
    IN Viewed(JpegScrubber_view_metadata(b))

\* fn scrub(&self) -> Result<ScrubResult, ScrubError>
JpegScrubber_scrub(b) ==
    LET Remove(metadata_removed, found) ==
            IF found.some
            THEN LET start_offset == found.val.start
                     segment_length == found.val.length
                     original_len == Len(b)
                     part2_start == start_offset + segment_length
                 IN IF part2_start > original_len
                    THEN Err("panic")
                    ELSE Ok(ScrubResult(Slice(b, 0, start_offset)
                                          \o Slice(b, part2_start, original_len),
                                        metadata_removed))
            ELSE Ok(ScrubResult(b, JpegNotFoundRemoved(metadata_removed)))
        Viewed(view) ==
            IF view.kind = "err" THEN view
            ELSE Remove(view.val, find_exif_segment(b))
    IN Viewed(JpegScrubber_view_metadata(b))

\* The eprintln! lines of find_exif_segment, from `offset` on: one line per
\* way of giving up, none when the segment is found.
RECURSIVE ScanStderr(_, _)
ScanStderr(b, offset) ==
    IF ~(offset + 4 <= Len(b)) THEN <<"DBG: EXIF APP1 segment not found">>
    ELSE IF At(b, offset) # 255 THEN <<"DBG: Invalid marker start at offset">>
    ELSE LET marker == At(b, offset + 1) IN
         IF marker \in 208..215 \/ marker = 1 THEN ScanStderr(b, offset + 2)
         ELSE IF marker = 217 \/ marker = 218
         THEN <<"DBG: EXIF APP1 segment not found">>
         ELSE IF offset + 4 > Len(b)
         THEN <<"DBG: Not enough bytes to read length at offset">>
         ELSE LET length == At(b, offset + 2) * 256 + At(b, offset + 3) IN
              IF length < 2 \/ offset + 2 + length > Len(b)
              THEN <<"DBG: Corrupt length field at offset">>
              ELSE IF /\ marker = 225
                      /\ length >= ExifMinLength
                      /\ offset + 4 + 6 <= Len(b)
                      /\ Slice(b, offset + 4, offset + 4 + 6) = ExifSig
                   THEN <<>>
                   ELSE ScanStderr(b, offset + 2 + length)

\* what find_exif_segment writes to standard error
find_exif_segment_stderr(b) == ScanStderr(b, 2)

Max(m, n) == IF m >= n THEN m ELSE n

\* The highest index of self.file_bytes the loop of find_exif_segment reads
\* from `offset` on, -1 when it reads none.
RECURSIVE ScanReads(_, _)
ScanReads(b, offset) ==
    IF ~(offset + 4 <= Len(b)) THEN -1
    ELSE IF At(b, offset) # 255 THEN offset
    ELSE LET marker == At(b, offset + 1) IN
         IF marker \in 208..215 \/ marker = 1
         THEN Max(offset + 1, ScanReads(b, offset + 2))
         ELSE IF marker = 217 \/ marker = 218 THEN offset + 1
         ELSE IF offset + 4 > Len(b) THEN offset + 1
         ELSE LET length == At(b, offset + 2) * 256 + At(b, offset + 3) IN
              IF length < 2 \/ offset + 2 + length > Len(b) THEN offset + 3
              ELSE IF marker = 225 /\ length >= ExifMinLength /\ offset + 4 + 6 <= Len(b)
                   THEN IF Slice(b, offset + 4, offset + 4 + 6) = ExifSig
                        THEN offset + 9
                        ELSE Max(offset + 9, ScanReads(b, offset + 2 + length))
                   ELSE Max(offset + 3, ScanReads(b, offset + 2 + length))

\* no scan is running
ScanIdle ==
    [pc |-> "idle", offset |-> 0, result |-> None, iterations |-> 0,
     metadata_removed |-> <<>>]

\* the scan at position r, n iterations of its loop behind it, inside a scrub
\* whose local metadata_removed holds `removed`
Iteration(r, n, removed) ==
    [pc |-> r.pc, offset |-> r.offset, result |-> r.result, iterations |-> n,
     metadata_removed |-> removed]

\* where the scan s is, leaving its count of iterations aside
Position(s) == [pc |-> s.pc, offset |-> s.offset, result |-> s.result]

\* the loop is at `offset`
ScanAt(offset) == [pc |-> "loop", offset |-> offset, result |-> None]

\* the function has returned `result`, from the loop at `offset`
ScanDone(offset, result) == [pc |-> "done", offset |-> offset, result |-> result]

\* Variant: a standalone marker is passed over without moving the offset.
ScanStep_stuck(b, offset) ==
    IF ~(offset + 4 <= Len(b)) THEN ScanDone(offset, None)
    ELSE IF At(b, offset) # 255 THEN ScanDone(offset, None)
    ELSE LET marker == At(b, offset + 1) IN
         IF marker \in 208..215 \/ marker = 1 THEN ScanAt(offset)
         ELSE IF marker = 217 \/ marker = 218 THEN ScanDone(offset, None)
         ELSE IF offset + 4 > Len(b) THEN ScanDone(offset, None)
         ELSE LET length == At(b, offset + 2) * 256 + At(b, offset + 3) IN
              IF length < 2 \/ offset + 2 + length > Len(b) THEN ScanDone(offset, None)
              ELSE IF /\ marker = 225
                      /\ length >= ExifMinLength
                      /\ offset + 4 + 6 <= Len(b)
                      /\ Slice(b, offset + 4, offset + 4 + 6) = ExifSig
                   THEN ScanDone(offset, Some([start |-> offset,
                                               length |-> ReportedLength(length)]))
                   ELSE ScanAt(offset + 2 + length)

\* Variant: the scan walks over FF DA and FF D9 as over any other segment.
ScanStep_no_stop(b, offset) ==
    IF ~(offset + 4 <= Len(b)) THEN ScanDone(offset, None)
    ELSE IF At(b, offset) # 255 THEN ScanDone(offset, None)
    ELSE LET marker == At(b, offset + 1) IN
         IF marker \in 208..215 \/ marker = 1 THEN ScanAt(offset + 2)
         ELSE IF offset + 4 > Len(b) THEN ScanDone(offset, None)
         ELSE LET length == At(b, offset + 2) * 256 + At(b, offset + 3) IN
              IF length < 2 \/ offset + 2 + length > Len(b) THEN ScanDone(offset, None)
              ELSE IF /\ marker = 225
                      /\ length >= ExifMinLength
                      /\ offset + 4 + 6 <= Len(b)
                      /\ Slice(b, offset + 4, offset + 4 + 6) = ExifSig
                   THEN ScanDone(offset, Some([start |-> offset,
                                               length |-> ReportedLength(length)]))
                   ELSE ScanAt(offset + 2 + length)

\* One iteration of the `while` loop of find_exif_segment at `offset`: the
\* loop's test, then a return, a break, or the new offset.
ScanStep(b, offset) ==
    IF ~(offset + 4 <= Len(b)) THEN ScanDone(offset, None)
    ELSE IF At(b, offset) # 255 THEN ScanDone(offset, None)
    ELSE LET marker == At(b, offset + 1) IN
         IF marker \in 208..215 \/ marker = 1 THEN ScanAt(offset + 2)
         ELSE IF marker = 217 \/ marker = 218 THEN ScanDone(offset, None)
         ELSE IF offset + 4 > Len(b) THEN ScanDone(offset, None)
         ELSE LET length == At(b, offset + 2) * 256 + At(b, offset + 3) IN
              IF length < 2 \/ offset + 2 + length > Len(b) THEN ScanDone(offset, None)
              ELSE IF /\ marker = 225
                      /\ length >= ExifMinLength
                      /\ offset + 4 + 6 <= Len(b)
                      /\ Slice(b, offset + 4, offset + 4 + 6) = ExifSig
                   THEN ScanDone(offset, Some([start |-> offset,
                                               length |-> ReportedLength(length)]))
                   ELSE ScanAt(offset + 2 + length)

\* The eprintln! lines of one iteration of the loop of find_exif_segment at
\* `offset`, the line behind the loop included when the loop is left.
ScanStepStderr(b, offset) ==
    IF ~(offset + 4 <= Len(b)) THEN <<"DBG: EXIF APP1 segment not found">>
    ELSE IF At(b, offset) # 255 THEN <<"DBG: Invalid marker start at offset">>
    ELSE LET marker == At(b, offset + 1) IN
         IF marker \in 208..215 \/ marker = 1 THEN <<>>
         ELSE IF marker = 217 \/ marker = 218
         THEN <<"DBG: EXIF APP1 segment not found">>
         ELSE IF offset + 4 > Len(b)
         THEN <<"DBG: Not enough bytes to read length at offset">>
         ELSE LET length == At(b, offset + 2) * 256 + At(b, offset + 3) IN
              IF length < 2 \/ offset + 2 + length > Len(b)
              THEN <<"DBG: Corrupt length field at offset">>
              ELSE <<>>

\* the eprintln! lines of scrub behind its call of find_exif_segment, which
\* returned `found`, when scrub returns `result`
JpegScrubber_scrub_after_scan_stderr(found, result) ==
    IF ~found.some THEN <<"DBG (scrub): No EXIF segment found">>
    ELSE <<"DBG (scrub): Preparing to remove segment",
           "DBG (scrub): Original len, Part1 len, Part2 start, Part2 len">>
         \o (IF result.kind = "err"
             THEN <<"DBG (scrub): ERROR - part2_start is beyond file length">>
             ELSE <<"DBG (scrub): Copying Part 1", "DBG (scrub): Copying Part 2",
                    "DBG (scrub): Final cleaned_bytes length">>
                  \o (IF result.val.cleaned_file_bytes = <<>> THEN <<>>
                      ELSE <<"DBG (scrub): First bytes", "DBG (scrub): Last 10 bytes">>))

\* scrub behind its call of find_exif_segment, which returned `found`
JpegScrubber_scrub_after_scan(b, metadata_removed, found) ==
    IF found.some
    THEN LET start_offset == found.val.start
             part2_start == start_offset + found.val.length
         IN IF part2_start > Len(b) THEN Err("panic")
            ELSE Ok(ScrubResult(Slice(b, 0, start_offset) \o Slice(b, part2_start, Len(b)),
                                metadata_removed))
    ELSE Ok(ScrubResult(b, JpegNotFoundRemoved(metadata_removed)))

\* what JpegScrubber::new writes to standard error
JpegScrubber_new_stderr(b) ==
    IF JpegScrubber_new(b).kind = "err" THEN <<>>
    ELSE <<"DBG (JpegScrubber::new): Received file_bytes with length">>

\* what JpegScrubber::scrub writes to standard error
JpegScrubber_scrub_stderr(b) ==
    LET Lines(found, result) ==
            IF ~found.some THEN <<"DBG (scrub): No EXIF segment found">>
            ELSE <<"DBG (scrub): Preparing to remove segment",
                   "DBG (scrub): Original len, Part1 len, Part2 start, Part2 len">>
                 \o (IF result.kind = "err"
                     THEN <<"DBG (scrub): ERROR - part2_start is beyond file length">>
                     ELSE <<"DBG (scrub): Copying Part 1", "DBG (scrub): Copying Part 2",
                            "DBG (scrub): Final cleaned_bytes length">>
                          \o (IF result.val.cleaned_file_bytes = <<>> THEN <<>>
                              ELSE <<"DBG (scrub): First bytes", "DBG (scrub): Last 10 bytes">>))
    IN IF JpegScrubber_view_metadata(b).kind = "err" THEN <<>>
       ELSE find_exif_segment_stderr(b)
            \o Lines(find_exif_segment(b), JpegScrubber_scrub(b))

-----------------------------------------------------------------------------
(* png.rs: the chunk codec PngScrubber calls.  The codec is the external    *)
(* crate png; what is modelled is the chunk stream (length, type, data,     *)
(* CRC-32), the header and text chunks read_info collects up to the first   *)
(* IDAT, the zlib stream of the image data with stored deflate blocks, and  *)
(* the scanline filters.                                                    *)

\* 89 50 4E 47 0D 0A 1A 0A
PngSignature == <<137, 80, 78, 71, 13, 10, 26, 10>>

TypeIHDR == <<73, 72, 68, 82>>

TypeIDAT == <<73, 68, 65, 84>>

TypeIEND == <<73, 69, 78, 68>>

TypetEXt == <<116, 69, 88, 116>>

TypezTXt == <<122, 84, 88, 116>>

TypeiTXt == <<105, 84, 88, 116>>

\* the bitwise exclusive or of two n-bit values
RECURSIVE Xor(_, _, _)
Xor(a, b, n) ==
    IF n = 0 THEN 0
    ELSE IF a = 0 THEN b
    ELSE IF b = 0 THEN a
    ELSE ((a + b) % 2) + 2 * Xor(a \div 2, b \div 2, n - 1)

\* k shift steps of the reflected CRC-32 (polynomial EDB88320); the 32-bit
\* register is the pair of its high and low 16 bits
RECURSIVE CrcShift(_, _)
CrcShift(c, k) ==
    IF k = 0 THEN c
    ELSE LET sh == <<c[1] \div 2, (c[2] \div 2) + (c[1] % 2) * 32768>>
             nx == IF c[2] % 2 = 1
                   THEN <<Xor(sh[1], 60856, 16), Xor(sh[2], 33568, 16)>>
                   ELSE sh
         IN IF nx = <<0, 0>> THEN nx ELSE CrcShift(nx, k - 1)

RECURSIVE CrcUpdate(_, _, _)
CrcUpdate(c, bytes, i) ==
    IF i > Len(bytes) THEN c
    ELSE LET nx == CrcShift(<<c[1], Xor(c[2], bytes[i], 16)>>, 8) IN
         IF nx[1] < 0 THEN nx ELSE CrcUpdate(nx, bytes, i + 1)

\* the four big-endian bytes of the CRC-32 of a chunk's type and data
Crc32(bytes) ==
    LET c  == CrcUpdate(<<65535, 65535>>, bytes, 1)
        hi == 65535 - c[1]
        lo == 65535 - c[2]
    IN <<hi \div 256, hi % 256, lo \div 256, lo % 256>>

\* the four big-endian bytes of the Adler-32 of a zlib stream's plain data
RECURSIVE AdlerUpdate(_, _, _)
AdlerUpdate(ab, bytes, i) ==
    IF i > Len(bytes) THEN ab
    ELSE LET a  == (ab[1] + bytes[i]) % 65521
             nx == <<a, (ab[2] + a) % 65521>>
         IN IF nx[1] < 0 THEN nx ELSE AdlerUpdate(nx, bytes, i + 1)

Adler32(bytes) ==
    LET ab == AdlerUpdate(<<1, 0>>, bytes, 1) IN
    <<ab[2] \div 256, ab[2] % 256, ab[1] \div 256, ab[1] % 256>>

\* a chunk length or dimension as its four big-endian bytes
Be32(n) == <<n \div 16777216, (n \div 65536) % 256, (n \div 256) % 256, n % 256>>

\* The chunk at 0-based offset: its type, data and the offset after it.  The
\* four CRC-32 bytes are read past: every chunk of the buffers drawn below
\* carries the checksum of its own type and data.
ReadChunk(b, offset) ==
    IF offset + 8 > Len(b) THEN Err("UnexpectedEof")
    ELSE IF At(b, offset) >= 128 THEN Err("chunk length")
    ELSE LET length == U32(b, offset, TRUE) IN
         IF offset + 12 + length > Len(b) THEN Err("UnexpectedEof")
         ELSE LET type == Slice(b, offset + 4, offset + 8)
                  data == Slice(b, offset + 8, offset + 8 + length)
              IN Ok([type |-> type, data |-> data, next |-> offset + 12 + length])

\* the index of the first NUL of s at or after index i, or 0
RECURSIVE FindNul(_, _)
FindNul(s, i) ==
    IF i > Len(s) THEN 0 ELSE IF s[i] = 0 THEN i ELSE FindNul(s, i + 1)

\* struct TEXtChunk { keyword, text }, also the shape kept for the two other kinds
TextOf(data) ==
    LET nul == FindNul(data, 1) IN
    IF nul < 2 \/ nul > 80 THEN Err("keyword")
    ELSE Ok([keyword |-> SubSeq(data, 1, nul - 1), text |-> SubSeq(data, nul + 1, Len(data))])

\* the IHDR fields the codec accepts
HeaderOf(data) ==
    IF Len(data) # 13 \/ At(data, 0) >= 128 \/ At(data, 4) >= 128 THEN Err("IHDR")
    ELSE LET h == [width |-> U32(data, 0, TRUE), height |-> U32(data, 4, TRUE),
                   bit_depth |-> At(data, 8), color_type |-> At(data, 9)]
         IN IF /\ h.width >= 1 /\ h.height >= 1
               /\ h.bit_depth \in {1, 2, 4, 8, 16}
               /\ h.color_type \in {0, 2, 3, 4, 6}
               /\ At(data, 10) = 0 /\ At(data, 11) = 0 /\ At(data, 12) \in {0, 1}
            THEN Ok(h) ELSE Err("IHDR")

NoInfo ==
    [header |-> None, uncompressed_latin1_text |-> <<>>,
     compressed_latin1_text |-> <<>>, utf8_text |-> <<>>, idat |-> 0]

\* Reads chunks up to the first IDAT, filling Info.
RECURSIVE ReadInfoFrom(_, _, _)
ReadInfoFrom(b, offset, info) ==
    LET Read(c) ==
            IF c.kind = "err" THEN c
            ELSE LET type == c.val.type
                     data == c.val.data
                 IN IF type = TypeIHDR
                    THEN IF info.header.some \/ HeaderOf(data).kind = "err" THEN Err("IHDR")
                         ELSE ReadInfoFrom(b, c.val.next,
                                  [info EXCEPT !.header = Some(HeaderOf(data).val)])
                    ELSE IF ~info.header.some THEN Err("MissingIhdr")
                    ELSE IF type = TypeIDAT THEN Ok([info EXCEPT !.idat = offset])
                    ELSE IF type = TypeIEND THEN Err("MissingImageData")
                    ELSE IF type \in {TypetEXt, TypezTXt, TypeiTXt}
                    THEN IF TextOf(data).kind = "err" THEN Err("text chunk")
                         ELSE LET t == TextOf(data).val IN
                              ReadInfoFrom(b, c.val.next,
                                  IF type = TypetEXt
                                  THEN [info EXCEPT !.uncompressed_latin1_text = Append(@, t)]
                                  ELSE IF type = TypezTXt
                                  THEN [info EXCEPT !.compressed_latin1_text = Append(@, t)]
                                  ELSE [info EXCEPT !.utf8_text = Append(@, t)])
                    ELSE ReadInfoFrom(b, c.val.next, info)
    IN Read(ReadChunk(b, offset))

\* png::Decoder::new(Cursor::new(bytes)).read_info()
Decoder_read_info(b) ==
    IF Len(b) < 8 \/ Slice(b, 0, 8) # PngSignature THEN Err("InvalidSignature")
    ELSE ReadInfoFrom(b, 8, NoInfo)

\* the data of the run of IDAT chunks that starts at offset
RECURSIVE IdatData(_, _)
IdatData(b, offset) ==
    LET Join(c, rest) == IF rest.kind = "err" THEN rest ELSE Ok(c.val.data \o rest.val)
        Read(c) ==
            IF c.kind = "err" THEN IF offset + 8 > Len(b) THEN Ok(<<>>) ELSE c
            ELSE IF c.val.type # TypeIDAT THEN Ok(<<>>)
            ELSE Join(c, IdatData(b, c.val.next))
    IN Read(ReadChunk(b, offset))

\* the stored blocks of a deflate stream, from 0-based offset on
RECURSIVE InflateFrom(_, _, _)
InflateFrom(z, offset, out) ==
    IF offset + 5 > Len(z) THEN Err("deflate: truncated")
    ELSE LET head == At(z, offset)
             len  == U16(z, offset + 1, FALSE)
             nlen == U16(z, offset + 3, FALSE)
         IN IF (head \div 2) % 4 # 0 THEN Err("deflate: not a stored block")
            ELSE IF len + nlen # 65535 \/ offset + 5 + len > Len(z)
            THEN Err("deflate: stored block")
            ELSE LET plain == out \o Slice(z, offset + 5, offset + 5 + len) IN
                 IF head % 2 = 0 THEN InflateFrom(z, offset + 5 + len, plain)
                 ELSE IF /\ offset + 5 + len + 4 <= Len(z)
                         /\ Slice(z, offset + 5 + len, offset + 5 + len + 4) = Adler32(plain)
                      THEN Ok(plain)
                      ELSE Err("zlib: checksum")

\* a zlib stream -> its plain data
Inflate(z) ==
    IF Len(z) < 2 THEN Err("zlib: truncated")
    ELSE IF At(z, 0) % 16 # 8 \/ (At(z, 0) * 256 + At(z, 1)) % 31 # 0
            \/ (At(z, 1) \div 32) % 2 = 1
    THEN Err("zlib: header")
    ELSE InflateFrom(z, 2, <<>>)

\* plain data -> a zlib stream of one stored block
Deflate(plain) ==
    <<120, 1, 1, Len(plain) % 256, Len(plain) \div 256,
      (65535 - Len(plain)) % 256, (65535 - Len(plain)) \div 256>>
    \o plain \o Adler32(plain)

\* samples per pixel of a colour type
Channels(color_type) ==
    CASE color_type = 0 -> 1
      [] color_type = 2 -> 3
      [] color_type = 3 -> 1
      [] color_type = 4 -> 2
      [] OTHER -> 4

\* bytes of one scanline, the filter byte not counted
RowBytes(h) == (h.width * Channels(h.color_type) * h.bit_depth + 7) \div 8

\* the distance of the filters' "left" byte
Bpp(h) == IF Channels(h.color_type) * h.bit_depth < 8 THEN 1
          ELSE (Channels(h.color_type) * h.bit_depth) \div 8

Abs(n) == IF n < 0 THEN -n ELSE n

Paeth(a, b, c) ==
    LET pa == Abs(b - c)
        pb == Abs(a - c)
        pc == Abs(a + b - 2 * c)
    IN IF pa <= pb /\ pa <= pc THEN a ELSE IF pb <= pc THEN b ELSE c

\* One scanline reconstructed from its filtered bytes x, left to right.
RECURSIVE Unfilter(_, _, _, _, _)
Unfilter(f, x, prior, bpp, recon) ==
    LET i == Len(recon) + 1 IN
    IF i > Len(x) THEN recon
    ELSE LET a == IF i > bpp THEN recon[i - bpp] ELSE 0
             b == prior[i]
             c == IF i > bpp THEN prior[i - bpp] ELSE 0
             p == CASE f = 0 -> 0
                    [] f = 1 -> a
                    [] f = 2 -> b
                    [] f = 3 -> (a + b) \div 2
                    [] OTHER -> Paeth(a, b, c)
         IN Unfilter(f, x, prior, bpp, Append(recon, (x[i] + p) % 256))

\* The scanlines of the plain image data, reconstructed top to bottom.
RECURSIVE UnfilterRows(_, _, _, _, _)
UnfilterRows(plain, h, row, prior, out) ==
    IF row = h.height THEN Ok(out)
    ELSE LET at == row * (1 + RowBytes(h))
             f  == At(plain, at)
         IN IF f > 4 THEN Err("filter type")
            ELSE LET recon == Unfilter(f, Slice(plain, at + 1, at + 1 + RowBytes(h)),
                                       prior, Bpp(h), <<>>)
                 IN UnfilterRows(plain, h, row + 1, recon, out \o recon)

\* reader.next_frame(&mut img_data): the pixel bytes and the OutputInfo
Reader_next_frame(b, info) ==
    LET h == info.header.val
        Frame(px) ==
            IF px.kind = "err" THEN px
            ELSE Ok([img_data |-> px.val, width |-> h.width, height |-> h.height,
                     color_type |-> h.color_type, bit_depth |-> h.bit_depth])
        Rows(plain) ==
            IF plain.kind = "err" THEN plain
            ELSE IF Len(plain.val) < h.height * (1 + RowBytes(h)) THEN Err("UnexpectedEof")
            ELSE Frame(UnfilterRows(plain.val, h, 0, [i \in 1..RowBytes(h) |-> 0], <<>>))
        Data(z) == IF z.kind = "err" THEN z ELSE Rows(Inflate(z.val))
    IN Data(IdatData(b, info.idat))

\* length, type, data and CRC-32 of one chunk
Chunk(type, data) == Be32(Len(data)) \o type \o data \o Crc32(type \o data)

\* encoder.write_header(): the signature and the IHDR chunk
Encoder_write_header(width, height, color_type, bit_depth) ==
    IF ~(bit_depth \in {1, 2, 4, 8, 16}) \/ width = 0 \/ height = 0
    THEN Err("EncodingError")
    ELSE Ok(PngSignature
            \o Chunk(TypeIHDR, Be32(width) \o Be32(height)
                                 \o <<bit_depth, color_type, 0, 0, 0>>))

\* The scanlines of img_data, each behind the filter byte of no filter.
RECURSIVE FilterRows(_, _, _)
FilterRows(img_data, rowbytes, row) ==
    IF row * rowbytes >= Len(img_data) THEN <<>>
    ELSE <<0>> \o Slice(img_data, row * rowbytes, (row + 1) * rowbytes)
              \o FilterRows(img_data, rowbytes, row + 1)

\* writer.write_image_data(&img_data), and the IEND chunk written on drop
Writer_write_image_data(h, img_data) ==
    IF Len(img_data) # h.height * RowBytes(h) THEN Err("EncodingError")
    ELSE Ok(Chunk(TypeIDAT, Deflate(FilterRows(img_data, RowBytes(h), 0)))
            \o Chunk(TypeIEND, <<>>))

-----------------------------------------------------------------------------
(* png.rs: impl Scrubber for PngScrubber. *)

\* the error PngScrubber::new returns for a buffer it rejects
PngNewError == "UnsupportedFileType"

\* fn new(file_bytes: Vec<u8>) -> Result<Self, ScrubError>
PngScrubber_new(b) ==
    IF Decoder_read_info(b).kind = "err"
    THEN Err(PngNewError)
    ELSE Ok([engine |-> "png", file_bytes |-> b])

\* the category view_metadata gives every entry
PngCategory == "tEXt/zTXt/iTXt"

\* the chunks view_metadata iterates over: &reader.info().uncompressed_latin1_text
PngViewedChunks(info) == info.uncompressed_latin1_text

\* fn view_metadata(&self) -> Result<Vec<MetadataEntry>, ScrubError>
PngScrubber_view_metadata(b) ==
    LET Collect(reader) ==
            IF reader.kind = "err" THEN Err("ParsingError")
            ELSE LET chunks == PngViewedChunks(reader.val) IN
                 Ok([i \in 1..Len(chunks) |->
                        MetadataEntry(chunks[i].keyword, chunks[i].text, PngCategory)])
    IN Collect(Decoder_read_info(b))

\* Variant: scrub decodes and re-encodes whether or not the view is empty.
PngScrubber_scrub_always_reencode(b) ==
    LET Written(metadata_removed, header, image) ==
            IF image.kind = "err" THEN Err("ParsingError")
            ELSE Ok(ScrubResult(header.val \o image.val, metadata_removed))
        Encode(metadata_removed, info, header) ==
            IF header.kind = "err" THEN Err("ParsingError")
            ELSE Written(metadata_removed, header,
                         Writer_write_image_data(info, info.img_data))
        Decoded(metadata_removed, frame) ==
            IF frame.kind = "err" THEN Err("ParsingError")
            ELSE Encode(metadata_removed, frame.val,
                        Encoder_write_header(frame.val.width, frame.val.height,
                                             frame.val.color_type, frame.val.bit_depth))
        Reencode(metadata_removed, reader) ==
            IF reader.kind = "err" THEN Err("ParsingError")
            ELSE Decoded(metadata_removed, Reader_next_frame(b, reader.val))
        Viewed(view) ==
            IF view.kind = "err" THEN view
            ELSE Reencode(view.val, Decoder_read_info(b))
    IN Viewed(PngScrubber_view_metadata(b))

\* Variant: a pixel-decode failure is answered with the original bytes.
PngScrubber_scrub_downgrade(b) ==
    LET Written(metadata_removed, header, image) ==
            IF image.kind = "err" THEN Err("ParsingError")
            ELSE Ok(ScrubResult(header.val \o image.val, metadata_removed))
        Encode(metadata_removed, info, header) ==
            IF header.kind = "err" THEN Err("ParsingError")
            ELSE Written(metadata_removed, header,
                         Writer_write_image_data(info, info.img_data))
        Decoded(metadata_removed, frame) ==
            IF frame.kind = "err" THEN Ok(ScrubResult(b, <<>>))
            ELSE Encode(metadata_removed, frame.val,
                        Encoder_write_header(frame.val.width, frame.val.height,
                                             frame.val.color_type, frame.val.bit_depth))
        Reencode(metadata_removed, reader) ==
            IF reader.kind = "err" THEN Err("ParsingError")
            ELSE Decoded(metadata_removed, Reader_next_frame(b, reader.val))
        Viewed(view) ==
            IF view.kind = "err" THEN view
            ELSE IF view.val = <<>> THEN Ok(ScrubResult(b, <<>>))
            ELSE Reencode(view.val, Decoder_read_info(b))
    IN Viewed(PngScrubber_view_metadata(b))

\* fn scrub(&self) -> Result<ScrubResult, ScrubError>
PngScrubber_scrub(b) ==
    LET Written(metadata_removed, header, image) ==
            IF image.kind = "err" THEN Err("ParsingError")
            ELSE Ok(ScrubResult(header.val \o image.val, metadata_removed))
        Encode(metadata_removed, info, header) ==
            IF header.kind = "err" THEN Err("ParsingError")
            ELSE Written(metadata_removed, header,
                         Writer_write_image_data(info, info.img_data))
        Decoded(metadata_removed, frame) ==
            IF frame.kind = "err" THEN Err("ParsingError")
            ELSE Encode(metadata_removed, frame.val,
                        Encoder_write_header(frame.val.width, frame.val.height,
                                             frame.val.color_type, frame.val.bit_depth))
        Reencode(metadata_removed, reader) ==
            IF reader.kind = "err" THEN Err("ParsingError")
            ELSE Decoded(metadata_removed, Reader_next_frame(b, reader.val))
        Viewed(view) ==
            IF view.kind = "err" THEN view
            ELSE IF view.val = <<>> THEN Ok(ScrubResult(b, <<>>))
            ELSE Reencode(view.val, Decoder_read_info(b))
    IN Viewed(PngScrubber_view_metadata(b))

-----------------------------------------------------------------------------
(* jpeg.rs, mod tests: the two test buffers. *)

\* const TEST_JPEG_WITH_EXIF (209 bytes)
TEST_JPEG_WITH_EXIF ==
    <<255, 216, 255, 225, 0, 74, 69, 120, 105, 102, 0, 0, 77, 77, 0, 42,
       0, 0, 0, 8, 0, 2, 1, 15, 0, 2, 0, 0, 0, 13, 0, 0,
       0, 26, 1, 16, 0, 2, 0, 0, 0, 12, 0, 0, 0, 40, 0, 0,
       0, 0, 84, 101, 115, 116, 32, 67, 97, 109, 101, 114, 97, 0, 84, 101,
       115, 116, 32, 77, 111, 100, 101, 108, 0, 255, 219, 0, 67, 0, 1, 1,
       1, 1, 1, 1, 1, 1, 1, 1, 1, 1, 1, 1, 1, 1, 1, 1,
       1, 1, 1, 1, 1, 1, 1, 1, 1, 1, 1, 1, 1, 1, 1, 1,
       1, 1, 1, 1, 1, 1, 1, 1, 1, 1, 1, 1, 1, 1, 1, 1,
       1, 1, 1, 1, 1, 1, 1, 1, 1, 1, 1, 255, 192, 0, 17, 8,
       0, 1, 0, 1, 3, 1, 34, 0, 2, 17, 1, 3, 17, 1, 255, 196,
       0, 31, 0, 0, 1, 5, 1, 1, 1, 1, 1, 1, 0, 0, 0, 0,
       0, 0, 0, 0, 1, 2, 3, 4, 5, 6, 7, 8, 9, 10, 11, 255,
       218, 0, 12, 3, 1, 0, 2, 17, 3, 17, 0, 63, 0, 247, 200, 255,
       217>>

\* const TEST_JPEG_WITHOUT_EXIF (135 bytes)
TEST_JPEG_WITHOUT_EXIF ==
    <<255, 216, 67, 0, 1, 1, 1, 1, 1, 1, 1, 1, 1, 1, 1, 1,
       1, 1, 1, 1, 1, 1, 1, 1, 1, 1, 1, 1, 1, 1, 1, 1,
       1, 1, 1, 1, 1, 1, 1, 1, 1, 1, 1, 1, 1, 1, 1, 1,
       1, 1, 1, 1, 1, 1, 1, 1, 1, 1, 1, 1, 1, 1, 1, 1,
       1, 255, 192, 0, 17, 8, 0, 1, 0, 1, 3, 1, 34, 0, 2, 17,
       1, 3, 17, 1, 255, 196, 0, 31, 0, 0, 1, 5, 1, 1, 1, 1,
       1, 1, 0, 0, 0, 0, 0, 0, 0, 0, 1, 2, 3, 4, 5, 6,
       7, 8, 9, 10, 11, 255, 218, 0, 12, 3, 1, 0, 2, 17, 3, 17,
       0, 63, 0, 247, 200, 255, 217>>

-----------------------------------------------------------------------------
(* png.rs, mod tests: the test buffer. *)

\* const TEST_PNG_WITH_METADATA (106 bytes)
TEST_PNG_WITH_METADATA ==
    <<137, 80, 78, 71, 13, 10, 26, 10, 0, 0, 0, 13, 73, 72, 68, 82,
      0, 0, 0, 1, 0, 0, 0, 1, 8, 6, 0, 0, 0, 31, 21, 196,
      137, 0, 0, 0, 28, 116, 69, 88, 116, 65, 117, 116, 104, 111, 114, 0,
      83, 99, 114, 117, 98, 75, 105, 116, 32, 84, 101, 115, 116, 101, 114, 215,
      122, 61, 248, 0, 0, 0, 12, 73, 68, 65, 84, 8, 215, 99, 96, 96,
      96, 248, 207, 192, 4, 0, 1, 10, 0, 255, 170, 222, 158, 221, 0, 0,
      0, 0, 73, 69, 78, 68, 174, 66, 96, 130>>

-----------------------------------------------------------------------------
(* The buffers a caller hands in: the test buffers, and every concatenation *)
(* of a few pieces of a marker stream or of a chunk stream.                 *)

\* FF D8, the start-of-image marker
SOI == <<255, 216>>

\* FF D0, a standalone marker (RST0)
RST0 == <<255, 208>>

\* FF DA, the scan-start marker
SOS == <<255, 218>>

\* FF D9, the end-of-image marker
EOI == <<255, 217>>

\* FF DB, the marker of an ordinary segment, its length field to follow
DQT == <<255, 219>>

\* 00 02: after a marker, the length field of a segment with no payload
Len2 == <<0, 2>>

\* 00 00: after a marker, a corrupt length field; after "Exif", its two zeros
Zeros == <<0, 0>>

\* FF, half a marker
HalfMarker == <<255>>

\* let invalid_bytes = vec![0x01, 0x02, 0x03] of new_jpeg_scrubber_works
invalid_bytes == <<1, 2, 3>>

\* APP1, length field 6, payload "Exif": the identifier's two zeros are missing
App1Len6 == <<255, 225, 0, 6, 69, 120, 105, 102>>

\* APP1, length field 8, payload "Exif\0\0" and no TIFF block
ExifBare == <<255, 225, 0, 8>> \o ExifSig

\* APP1, length field 10, payload "Exif\0\0" FF D0
ExifRst == <<255, 225, 0, 10>> \o ExifSig \o RST0

\* APP1, length field 46, payload "Exif\0\0" and a big-endian TIFF block whose
\* directory holds two tags, Make (0x010F) = "A" and Model (0x0110) = "B"
ExifTiff ==
    <<255, 225, 0, 46, 69, 120, 105, 102, 0, 0, 77, 77, 0, 42, 0, 0,
       0, 8, 0, 2, 1, 15, 0, 2, 0, 0, 0, 2, 65, 0, 0, 0,
       1, 16, 0, 2, 0, 0, 0, 2, 66, 0, 0, 0, 0, 0, 0, 0>>

\* APP1, length field 46, payload "Exif\0\0": the segment is cut short
ExifCut == <<255, 225, 0, 46>> \o ExifSig

\* TEM, the standalone marker of type 0x01
TEM == <<255, 1>>

\* the pieces behind FF D8 of a buffer whose scan is followed step by step
ScanPieces == {RST0, TEM, SOS, EOI, DQT, Len2, Zeros, App1Len6, ExifTiff, ExifCut}

JpegPieces ==
    {SOI, RST0, SOS, EOI, DQT, Len2, Zeros, HalfMarker,
     App1Len6, ExifBare, ExifRst, ExifTiff, ExifCut}

\* buffers that are whole files, not assembled from pieces
JpegFiles == {TEST_JPEG_WITH_EXIF, TEST_JPEG_WITHOUT_EXIF, invalid_bytes}

\* IHDR of a 1 x 1 image, 8 bits per sample, colour type 6 (RGBA)
IhdrChunk ==
    <<0, 0, 0, 13, 73, 72, 68, 82, 0, 0, 0, 1, 0, 0, 0, 1,
      8, 6, 0, 0, 0, 31, 21, 196, 137>>

\* tEXt, keyword "Author", text "ScrubKit Tester"
TextChunk ==
    <<0, 0, 0, 22, 116, 69, 88, 116, 65, 117, 116, 104, 111, 114, 0, 83,
      99, 114, 117, 98, 75, 105, 116, 32, 84, 101, 115, 116, 101, 114, 12, 145,
      122, 29>>

\* tEXt, keyword "K", text "V"
TextChunk2 ==
    <<0, 0, 0, 3, 116, 69, 88, 116, 75, 0, 86, 200, 39, 149, 184>>

\* zTXt, keyword "Z", compression method 0, the zlib stream of "v"
ZtxtChunk ==
    <<0, 0, 0, 15, 122, 84, 88, 116, 90, 0, 0, 120, 1, 1, 1, 0,
      254, 255, 118, 0, 119, 0, 119, 44, 42, 111, 36>>

\* iTXt, keyword "I", uncompressed, no language tag, text "v"
ItxtChunk ==
    <<0, 0, 0, 7, 105, 84, 88, 116, 73, 0, 0, 0, 0, 0, 118, 121,
      132, 167, 196>>

\* IDAT, the zlib stream of the scanline 00 0A 14 1E FF (no filter, one pixel)
IdatChunk ==
    <<0, 0, 0, 16, 73, 68, 65, 84, 120, 1, 1, 5, 0, 250, 255, 0,
      10, 20, 30, 255, 1, 164, 1, 60, 180, 228, 184, 40>>

\* IDAT whose stored block states a length its complement does not match
IdatCorrupt ==
    <<0, 0, 0, 7, 73, 68, 65, 84, 120, 1, 1, 5, 0, 0, 0, 87,
      51, 79, 79>>

\* IEND
IendChunk ==
    <<0, 0, 0, 0, 73, 69, 78, 68, 174, 66, 96, 130>>

\* the signature and IHDR: the start of every valid chunk stream
PngHead == PngSignature \o IhdrChunk

PngPieces ==
    {PngSignature, PngHead, TextChunk, TextChunk2, ZtxtChunk, ItxtChunk,
     IdatChunk, IdatCorrupt, IendChunk}

\* Scenario B: a valid single-pixel file with one textual chunk
ScenarioB == PngHead \o TextChunk \o IdatChunk \o IendChunk

\* Scenario C: a valid single-pixel file with no textual chunk
ScenarioC == PngHead \o IdatChunk \o IendChunk

PngFiles == {TEST_PNG_WITH_METADATA, ScenarioB, ScenarioC}

\* the pieces of the buffers handed to the dispatcher
DispatchPieces ==
    {PngSignature, IhdrChunk, TextChunk, IdatChunk, SOI, HalfMarker, Zeros,
     ExifBare, ExifTiff}

-----------------------------------------------------------------------------
(* The state machine: a caller assembles a buffer, constructs an engine on  *)
(* it, and calls view_metadata and scrub on the instance; it may construct  *)
(* a new engine on the cleaned bytes a scrub returned, as the tests do.     *)

NoScrubber == [engine |-> "none", file_bytes |-> <<>>]

\* trait Scrubber: fn new
Scrubber_new(engine, b) ==
    IF engine = "jpeg" THEN JpegScrubber_new(b) ELSE PngScrubber_new(b)

\* trait Scrubber: fn view_metadata(&self)
Scrubber_view_metadata(s) ==
    IF s.engine = "jpeg" THEN JpegScrubber_view_metadata(s.file_bytes)
    ELSE PngScrubber_view_metadata(s.file_bytes)

\* trait Scrubber: fn scrub(&self)
Scrubber_scrub(s) ==
    IF s.engine = "jpeg" THEN JpegScrubber_scrub(s.file_bytes)
    ELSE PngScrubber_scrub(s.file_bytes)

\* Variant: the length tests admit the bare signatures.
scrubber_for_file_inclusive(b) ==
    IF Len(b) >= 8 /\ Slice(b, 0, 8) = PngSignature THEN PngScrubber_new(b)
    ELSE IF Len(b) >= 2 /\ Slice(b, 0, 2) = <<255, 216>> THEN JpegScrubber_new(b)
    ELSE Err("UnsupportedFileType")

\* pub fn scrubber_for_file(file_bytes: Vec<u8>) -> Result<Box<dyn Scrubber>, ScrubError>
scrubber_for_file(b) ==
    IF Len(b) > 8 /\ Slice(b, 0, 8) = PngSignature THEN PngScrubber_new(b)
    ELSE IF Len(b) > 2 /\ Slice(b, 0, 2) = <<255, 216>> THEN JpegScrubber_new(b)
    ELSE Err("UnsupportedFileType")

\* what the constructor of an engine writes to standard error
Scrubber_new_stderr(engine, b) ==
    IF engine = "jpeg" THEN JpegScrubber_new_stderr(b) ELSE <<>>

\* what scrub of an instance writes to standard error
Scrubber_scrub_stderr(s) ==
    IF s.engine = "jpeg" THEN JpegScrubber_scrub_stderr(s.file_bytes) ELSE <<>>

\* what scrubber_for_file writes to standard error: its engine's lines
scrubber_for_file_stderr(b) ==
    IF Len(b) > 8 /\ Slice(b, 0, 8) = PngSignature THEN <<>>
    ELSE IF Len(b) > 2 /\ Slice(b, 0, 2) = <<255, 216>> THEN JpegScrubber_new_stderr(b)
    ELSE <<>>

\* the threads that may hold the instance
Threads == 1..MaxThreads

\* no thread is inside a call
Idle == [t \in Threads |-> "idle"]

\* the instance a constructor call leaves the caller with
Instance(result) == IF result.kind = "ok" THEN result.val ELSE NoScrubber

InitWith(files) ==
    /\ input \in {<<>>} \cup files
    /\ npieces = 0
    /\ scrubber = NoScrubber
    /\ made = Pending
    /\ viewed = Pending
    /\ scrubbed = Pending
    /\ reopened = 0
    /\ stderr = <<>>
    /\ calls = Idle
    /\ scan = ScanIdle

\* the caller appends a piece to the buffer it is assembling
AppendPiece(p, max) ==
    /\ made = Pending
    /\ npieces < max
    /\ input \notin JpegFiles \cup PngFiles
    /\ input' = input \o p
    /\ npieces' = npieces + 1
    /\ UNCHANGED <<scrubber, made, viewed, scrubbed, reopened, stderr, calls, scan>>

\* JpegScrubber::new(input)
JpegNew ==
    /\ made = Pending
    /\ made' = JpegScrubber_new(input)
    /\ scrubber' = Instance(made')
    /\ stderr' = JpegScrubber_new_stderr(input)
    /\ UNCHANGED <<input, npieces, viewed, scrubbed, reopened, calls, scan>>

\* PngScrubber::new(input)
PngNew ==
    /\ made = Pending
    /\ made' = PngScrubber_new(input)
    /\ scrubber' = Instance(made')
    /\ stderr' = <<>>
    /\ UNCHANGED <<input, npieces, viewed, scrubbed, reopened, calls, scan>>

\* scrubber_for_file(input)
ScrubberForFile ==
    /\ made = Pending
    /\ made' = scrubber_for_file(input)
    /\ scrubber' = Instance(made')
    /\ stderr' = scrubber_for_file_stderr(input)
    /\ UNCHANGED <<input, npieces, viewed, scrubbed, reopened, calls, scan>>

\* scrubber.view_metadata()
ViewMetadata ==
    /\ scrubber.engine # "none"
    /\ viewed' = Scrubber_view_metadata(scrubber)
    /\ stderr' = <<>>
    /\ UNCHANGED <<input, npieces, scrubber, made, scrubbed, reopened, calls, scan>>

\* scrubber.scrub()
Scrub ==
    /\ scrubber.engine # "none"
    /\ scrubbed' = Scrubber_scrub(scrubber)
    /\ stderr' = Scrubber_scrub_stderr(scrubber)
    /\ UNCHANGED <<input, npieces, scrubber, made, viewed, reopened, calls, scan>>

\* Scrubber::new(result.cleaned_file_bytes), with the engine that scrubbed
Reopen ==
    /\ scrubbed.kind = "ok"
    /\ reopened < MaxReopen
    /\ input' = scrubbed.val.cleaned_file_bytes
    /\ made' = Scrubber_new(scrubber.engine, input')
    /\ scrubber' = Instance(made')
    /\ viewed' = Pending
    /\ scrubbed' = Pending
    /\ reopened' = reopened + 1
    /\ stderr' = Scrubber_new_stderr(scrubber.engine, input')
    /\ UNCHANGED <<npieces, calls, scan>>

InitJpeg == InitWith(JpegFiles)

NextJpeg ==
    \/ \E p \in JpegPieces : AppendPiece(p, MaxJpegPieces)
    \/ JpegNew
    \/ ViewMetadata
    \/ Scrub
    \/ Reopen

\* the segment-format engine on its own
SpecJpeg == InitJpeg /\ [][NextJpeg]_vars

InitPng == InitWith(PngFiles)

NextPng ==
    \/ \E p \in PngPieces : AppendPiece(p, MaxPngPieces)
    \/ PngNew
    \/ ViewMetadata
    \/ Scrub
    \/ Reopen

\* the chunk-format engine on its own
SpecPng == InitPng /\ [][NextPng]_vars

Init == InitWith(JpegFiles \cup PngFiles)

Next ==
    \/ \E p \in DispatchPieces : AppendPiece(p, MaxDispatchPieces)
    \/ ScrubberForFile
    \/ ViewMetadata
    \/ Scrub
    \/ Reopen

\* the library behind its entry point scrubber_for_file
Spec == Init /\ [][Next]_vars

\* a thread enters view_metadata(&self) or scrub(&self) on the shared instance
Begin(t, op) ==
    /\ scrubber.engine # "none"
    /\ calls[t] = "idle"
    /\ calls' = [calls EXCEPT ![t] = op]
    /\ UNCHANGED <<input, npieces, scrubber, made, viewed, scrubbed, reopened, stderr, scan>>

\* Variant: scrub keeps its cleaned bytes in the instance.
End_in_place(t) ==
    /\ calls[t] # "idle"
    /\ calls' = [calls EXCEPT ![t] = "idle"]
    /\ IF calls[t] = "scrub"
       THEN /\ scrubbed' = Scrubber_scrub(scrubber)
            /\ stderr' = Scrubber_scrub_stderr(scrubber)
            /\ scrubber' = IF scrubbed'.kind = "ok"
                           THEN [scrubber EXCEPT
                                    !.file_bytes = scrubbed'.val.cleaned_file_bytes]
                           ELSE scrubber
            /\ UNCHANGED viewed
       ELSE /\ viewed' = Scrubber_view_metadata(scrubber)
            /\ stderr' = <<>>
            /\ UNCHANGED <<scrubbed, scrubber>>
    /\ UNCHANGED <<input, npieces, made, reopened, scan>>

\* the thread's call returns: it has read self.file_bytes and nothing else,
\* and hands its result to the caller
End(t) ==
    /\ calls[t] # "idle"
    /\ calls' = [calls EXCEPT ![t] = "idle"]
    /\ IF calls[t] = "scrub"
       THEN /\ scrubbed' = Scrubber_scrub(scrubber)
            /\ stderr' = Scrubber_scrub_stderr(scrubber)
            /\ UNCHANGED viewed
       ELSE /\ viewed' = Scrubber_view_metadata(scrubber)
            /\ stderr' = <<>>
            /\ UNCHANGED scrubbed
    /\ UNCHANGED <<input, npieces, scrubber, made, reopened, scan>>

\* the pieces of the buffer of a shared instance
CallPieces == {SOI, RST0, ExifBare, ExifRst, ExifTiff, PngHead, IdatChunk}

InitCalls == InitWith(JpegFiles \cup PngFiles)

NextCalls ==
    \/ \E p \in CallPieces : AppendPiece(p, MaxCallPieces)
    \/ JpegNew
    \/ PngNew
    \/ \E t \in Threads : \E op \in {"view_metadata", "scrub"} : Begin(t, op)
    \/ \E t \in Threads : End(t)

\* one instance of either engine, called by several threads at once
SpecCalls == InitCalls /\ [][NextCalls]_vars

\* scrub(&self) of the segment engine up to its call of find_exif_segment:
\* view_metadata()? has returned, the loop starts at offset 2
ScrubBegin ==
    /\ scrubber.engine = "jpeg"
    /\ scrubbed = Pending
    /\ scan.pc = "idle"
    /\ LET Enter(view) ==
               IF view.kind = "err"
               THEN /\ scrubbed' = view
                    /\ scan' = scan
               ELSE /\ scan' = Iteration(ScanAt(2), 0, view.val)
                    /\ scrubbed' = scrubbed
       IN Enter(JpegScrubber_view_metadata(scrubber.file_bytes))
    /\ stderr' = <<>>
    /\ UNCHANGED <<input, npieces, scrubber, made, viewed, reopened, calls>>

\* one iteration of the loop of find_exif_segment
ScanIterate ==
    /\ scan.pc = "loop"
    /\ scan' = Iteration(ScanStep(scrubber.file_bytes, scan.offset),
                         scan.iterations + 1, scan.metadata_removed)
    /\ stderr' = stderr \o ScanStepStderr(scrubber.file_bytes, scan.offset)
    /\ UNCHANGED <<input, npieces, scrubber, made, viewed, scrubbed, reopened, calls>>

\* find_exif_segment has returned: scrub builds its result and returns
ScrubEnd ==
    /\ scan.pc = "done"
    /\ scrubbed = Pending
    /\ scrubbed' = JpegScrubber_scrub_after_scan(scrubber.file_bytes,
                                                 scan.metadata_removed, scan.result)
    /\ stderr' = stderr \o JpegScrubber_scrub_after_scan_stderr(scan.result, scrubbed')
    /\ UNCHANGED <<input, npieces, scrubber, made, viewed, reopened, calls, scan>>

InitScan == InitWith({SOI, TEST_JPEG_WITH_EXIF}) /\ input # <<>>

NextScan ==
    \/ \E p \in ScanPieces : AppendPiece(p, MaxScanPieces)
    \/ JpegNew
    \/ ScrubBegin
    \/ ScanIterate
    \/ ScrubEnd

\* the segment engine with the loop of its scan taken one iteration at a time
SpecScan == InitScan /\ [][NextScan]_vars

\* the thread inside scrub keeps running
SpecScanFair == SpecScan /\ WF_vars(ScanIterate) /\ WF_vars(ScrubEnd)


\* ---------------------------------------------------------------------------
\* Properties
\* ---------------------------------------------------------------------------

\* the buffer of the engine under inspection
FileBytes == scrubber.file_bytes

\* what the segment scan finds in the engine's buffer
Found == find_exif_segment(FileBytes)

IsPrefix(p, b) == Len(b) >= Len(p) /\ SubSeq(b, 1, Len(p)) = p

JpegScrubbed == scrubbed.kind = "ok" /\ scrubber.engine = "jpeg"

\* C1: format detection looks at the leading bytes only: a buffer of at least
\* 8 bytes that starts with the PNG signature gets the chunk engine; any other
\* buffer of at least 2 bytes that starts with FF D8 gets the segment engine;
\* every other buffer is refused with UnsupportedFileType.
C1_Detection ==
    made # Pending /\ reopened = 0 =>
        LET png == IsPrefix(PngSignature, input)
            jpg == ~png /\ IsPrefix(SOI, input)
        IN /\ png => made = PngScrubber_new(input)
           /\ jpg => made = JpegScrubber_new(input)
           /\ ~png /\ ~jpg => made = Err("UnsupportedFileType")

\* C2: the segment engine's constructor refuses, with UnsupportedFileType,
\* every buffer shorter than 2 bytes or not starting with FF D8, and accepts
\* every other buffer.
C2_JpegConstruction ==
    made # Pending /\ reopened = 0 =>
        IF IsPrefix(SOI, input)
        THEN made = Ok([engine |-> "jpeg", file_bytes |-> input])
        ELSE made = Err("UnsupportedFileType")

\* C3: when the scan finds the target at offset s with length field L, it
\* reports the length 2 + L and the cleaned buffer is
\* bytes[0..s] ++ bytes[s+2+L..].
C3_Excision ==
    JpegScrubbed /\ Found.some =>
        LET s == Found.val.start
            L == U16(FileBytes, s + 2, TRUE)
        IN /\ Found.val.length = 2 + L
           /\ scrubbed.val.cleaned_file_bytes =
                  Slice(FileBytes, 0, s) \o Slice(FileBytes, s + 2 + L, Len(FileBytes))

\* C4: an engine built on a scrubbed output finds nothing: its metadata view
\* is the empty list and, for the segment engine, the scan finds no target.
C4_Rescrub ==
    reopened > 0 /\ scrubber.engine # "none" =>
        /\ Scrubber_view_metadata(scrubber) = Ok(<<>>)
        /\ scrubber.engine = "jpeg" => ~Found.some

\* C5: when the metadata view of a file is empty, the segment engine's scrub
\* returns the file's bytes unchanged and an empty metadata_removed, whatever
\* the scan can locate.
C5_NoOp ==
    JpegScrubbed /\ JpegScrubber_view_metadata(FileBytes) = Ok(<<>>)
        => scrubbed.val = ScrubResult(FileBytes, <<>>)

\* C6: the segment engine's metadata_removed is what view_metadata returned,
\* whether or not the scan located a segment.
C6_RemovedIsView ==
    JpegScrubbed =>
        Ok(scrubbed.val.metadata_removed) = JpegScrubber_view_metadata(FileBytes)

\* C7: a segment-engine scrub with a non-empty metadata_removed returns a
\* buffer no longer than the input, and whenever a segment is excised the
\* output is strictly shorter than the input.
C7_SizeMonotone ==
    JpegScrubbed =>
        /\ scrubbed.val.metadata_removed # <<>>
               => Len(scrubbed.val.cleaned_file_bytes) <= Len(FileBytes)
        /\ Found.some
               => Len(scrubbed.val.cleaned_file_bytes) < Len(FileBytes)

\* C7's case: a segment was excised, entries are reported, the output shrank
C7_Witness ==
    /\ JpegScrubbed
    /\ Found.some
    /\ scrubbed.val.metadata_removed # <<>>
    /\ Len(scrubbed.val.cleaned_file_bytes) + Found.val.length = Len(FileBytes)

PngEngine == scrubber.engine = "png"

TextualKinds == {TypetEXt, TypezTXt, TypeiTXt}

\* every textual chunk of a chunk stream, in stream order, up to IEND
RECURSIVE TextualChunksFrom(_, _)
TextualChunksFrom(b, offset) ==
    LET Walk(c) ==
            IF c.kind = "err" THEN <<>>
            ELSE (IF c.val.type \in TextualKinds THEN <<c.val>> ELSE <<>>)
                 \o (IF c.val.type = TypeIEND THEN <<>>
                     ELSE TextualChunksFrom(b, c.val.next))
    IN Walk(ReadChunk(b, offset))

TextualChunks(b) == TextualChunksFrom(b, Len(PngSignature))

\* the keyword of a textual chunk: the bytes before its first NUL
ChunkKeyword(c) == SubSeq(c.data, 1, FindNul(c.data, 1) - 1)

\* the text of a textual chunk: after the keyword for tEXt; the inflated
\* stream after keyword and method byte for zTXt; after keyword, two flag
\* bytes, language tag and translated keyword for an uncompressed iTXt
ChunkText(c) ==
    LET nul == FindNul(c.data, 1) IN
    IF c.type = TypetEXt THEN SubSeq(c.data, nul + 1, Len(c.data))
    ELSE IF c.type = TypezTXt
    THEN LET plain == Inflate(SubSeq(c.data, nul + 2, Len(c.data))) IN
         IF plain.kind = "ok" THEN plain.val ELSE <<>>
    ELSE LET lang == FindNul(c.data, nul + 3)
             tkey == FindNul(c.data, lang + 1)
         IN SubSeq(c.data, tkey + 1, Len(c.data))

\* "Author"
AuthorKey == <<65, 117, 116, 104, 111, 114>>

\* "ScrubKit Tester"
AuthorValue == <<83, 99, 114, 117, 98, 75, 105, 116, 32, 84, 101, 115, 116, 101, 114>>

\* C9: the chunk engine's view_metadata returns one entry per textual chunk
\* (tEXt, zTXt or iTXt) of the stream, in stream order, with category
\* "text chunk", the chunk's keyword as key and its text as value; for the
\* Scenario B file that is the single entry Author / ScrubKit Tester.
C9_PngView ==
    PngEngine =>
        LET view == PngScrubber_view_metadata(FileBytes)
            chunks == TextualChunks(FileBytes)
        IN /\ view.kind = "ok"
           /\ Len(view.val) = Len(chunks)
           /\ \A i \in 1..Len(chunks) :
                  view.val[i] = MetadataEntry(ChunkKeyword(chunks[i]),
                                              ChunkText(chunks[i]), "text chunk")
           /\ FileBytes = ScenarioB
                  => view.val = <<MetadataEntry(AuthorKey, AuthorValue, "text chunk")>>

\* a stream that decodes to an image and ends with its IEND chunk
ValidPng(b) ==
    LET Frame(reader) ==
            reader.kind = "ok" /\ Reader_next_frame(b, reader.val).kind = "ok"
    IN /\ Frame(Decoder_read_info(b))
       /\ Len(b) >= Len(IendChunk)
       /\ SubSeq(b, Len(b) - Len(IendChunk) + 1, Len(b)) = IendChunk

\* C10: the cleaned bytes of a successful chunk-engine scrub of a valid file
\* hold no textual chunk of any kind, also when the file's only textual chunks
\* are zTXt or iTXt ones.
C10_NoTextualChunkLeft ==
    PngEngine /\ ValidPng(FileBytes) /\ scrubbed.kind = "ok"
        => TextualChunks(scrubbed.val.cleaned_file_bytes) = <<>>

\* the reader of the engine's buffer, and its frame, as scrub obtains them
PngFrame(b) ==
    LET Frame(reader) ==
            IF reader.kind = "err" THEN reader ELSE Reader_next_frame(b, reader.val)
    IN Frame(Decoder_read_info(b))

\* C11: whenever the chunk engine's view_metadata is empty, scrub decodes and
\* re-encodes nothing: it returns the stored bytes themselves and an empty
\* metadata_removed.
C11_PngNoOp ==
    PngEngine /\ scrubbed # Pending
              /\ PngScrubber_view_metadata(FileBytes) = Ok(<<>>)
        => scrubbed = Ok(ScrubResult(FileBytes, <<>>))

\* C11's case: the view is empty and scrub answered with the stored bytes,
\* though the pixel data would not decode and textual chunks are in the file
C11_Witness ==
    /\ PngEngine
    /\ PngScrubber_view_metadata(FileBytes) = Ok(<<>>)
    /\ scrubbed = Ok(ScrubResult(FileBytes, <<>>))
    /\ PngFrame(FileBytes).kind = "err"
    /\ TextualChunks(FileBytes) # <<>>

\* what the encoder writes for a decoded frame: header and image data
PngEncoded(frame) ==
    LET Image(header) ==
            IF header.kind = "err" THEN header
            ELSE LET Join(image) ==
                         IF image.kind = "err" THEN image
                         ELSE Ok(header.val \o image.val)
                 IN Join(Writer_write_image_data(frame, frame.img_data))
    IN Image(Encoder_write_header(frame.width, frame.height,
                                  frame.color_type, frame.bit_depth))

\* a step of the codec fails in the chunk engine's scrub of b: the structural
\* decode of the view, or, once the view is not empty, the pixel decode or
\* one of the two writes
PngCodecFails(b) ==
    LET view == PngScrubber_view_metadata(b) IN
    \/ view.kind = "err"
    \/ /\ view.val # <<>>
       /\ \/ PngFrame(b).kind = "err"
          \/ PngEncoded(PngFrame(b).val).kind = "err"

\* C12: a codec failure during the chunk engine's scrub makes it return
\* Err(ParsingError): it is never answered with Ok, with the original bytes,
\* an empty removal list or a partly encoded buffer; an Ok result is either
\* the untouched input of an empty view or the complete re-encoding.
C12_PngFailurePropagates ==
    PngEngine /\ scrubbed # Pending =>
        /\ PngCodecFails(FileBytes) => scrubbed = Err("ParsingError")
        /\ scrubbed.kind = "ok" =>
               \/ /\ PngScrubber_view_metadata(FileBytes) = Ok(<<>>)
                  /\ scrubbed.val = ScrubResult(FileBytes, <<>>)
               \/ /\ ~PngCodecFails(FileBytes)
                  /\ scrubbed.val.cleaned_file_bytes
                         = PngEncoded(PngFrame(FileBytes).val).val
                  /\ Ok(scrubbed.val.metadata_removed)
                         = PngScrubber_view_metadata(FileBytes)

\* C12's case: the view found a textual chunk, the pixel decode failed and
\* scrub returned the error
C12_Witness ==
    /\ PngEngine
    /\ PngScrubber_view_metadata(FileBytes).kind = "ok"
    /\ PngScrubber_view_metadata(FileBytes).val # <<>>
    /\ PngFrame(FileBytes).kind = "err"
    /\ scrubbed = Err("ParsingError")

JpegEngine == scrubber.engine = "jpeg"

\* C13: when the decoder finds no metadata container in the segment engine's
\* buffer, view_metadata returns Ok with the empty list, never an error, and
\* scrub on that buffer returns Ok as well.
C13_NoContainerIsOk ==
    JpegEngine /\ MediaParser_parse(FileBytes).kind = "err" =>
        /\ JpegScrubber_view_metadata(FileBytes) = Ok(<<>>)
        /\ viewed # Pending => viewed = Ok(<<>>)
        /\ scrubbed # Pending => scrubbed.kind = "ok"

\* C13's case: no container, both calls made, both answered Ok
C13_Witness ==
    /\ JpegEngine
    /\ MediaParser_parse(FileBytes).kind = "err"
    /\ viewed = Ok(<<>>)
    /\ scrubbed.kind = "ok"

\* C14: an instance never changes its stored bytes after construction: over
\* every interleaving of view_metadata and scrub calls of several threads the
\* buffer stays the constructor's input, every scrub returns what the first
\* one returned, and each call returns what it returns when run alone on the
\* freshly constructed instance.
C14_InstanceImmutable ==
    [][scrubber.engine # "none" =>
          /\ scrubber' = scrubber
          /\ scrubber'.file_bytes = input'
          /\ scrubbed # Pending /\ scrubbed' # Pending => scrubbed' = scrubbed
          /\ viewed' # Pending => viewed' = Scrubber_view_metadata(made.val)
          /\ scrubbed' # Pending => scrubbed' = Scrubber_scrub(made.val)]_vars

\* C14's case: a scrub that removed bytes has returned, and two threads are
\* inside a scrub and a view_metadata call on the same instance
C14_Witness ==
    /\ scrubbed.kind = "ok"
    /\ scrubbed.val.cleaned_file_bytes # scrubber.file_bytes
    /\ viewed # Pending
    /\ calls[1] = "scrub"
    /\ calls[2] = "view_metadata"

\* the name of a tag: its name in the tag dictionary, or its code
ExifTagName(tag) ==
    CASE tag = 271 -> "Make"
      [] tag = 272 -> "Model"
      [] OTHER -> "Tag(" \o ToString(tag) \o ")"

\* C15: the segment engine maps every tag the decoder yields to one
\* MetadataEntry, in the decoder's order, with the tag's name as key, the
\* tag's sub-block as category and the rendering of its value as value; two
\* tags with different names get different keys.
C15_TagMapping ==
    JpegEngine /\ MediaParser_parse(FileBytes).kind = "ok" =>
        LET tags == MediaParser_parse(FileBytes).val
            view == JpegScrubber_view_metadata(FileBytes)
        IN /\ view.kind = "ok"
           /\ Len(view.val) = Len(tags)
           /\ \A i \in 1..Len(tags) :
                  /\ view.val[i].key = ExifTagName(tags[i].tag)
                  /\ view.val[i].category = IfdCategory(tags[i].ifd_index)
                  /\ view.val[i].value = ValueString(tags[i].value)
           /\ \A i, j \in 1..Len(tags) :
                  tags[i].tag # tags[j].tag => view.val[i].key # view.val[j].key

\* C16: constructing the segment engine, the segment scan and scrub write
\* nothing to standard error on any input: after each of those calls no line
\* has been written, and none would be by the scan or scrub of the instance.
C16_NoDiagnostics ==
    /\ made # Pending => stderr = <<>>
    /\ JpegEngine =>
           /\ JpegScrubber_new_stderr(FileBytes) = <<>>
           /\ find_exif_segment_stderr(FileBytes) = <<>>
           /\ JpegScrubber_scrub_stderr(FileBytes) = <<>>

\* the buffer is longer than the signature it starts with
RoutedToPng == Len(input) > 8 /\ IsPrefix(PngSignature, input)

RoutedToJpeg == ~RoutedToPng /\ Len(input) > 2 /\ IsPrefix(SOI, input)

\* C17: scrubber_for_file applies its rules in order with strict thresholds:
\* the chunk engine only for a buffer longer than 8 bytes that starts with
\* the signature, else the segment engine only for a buffer longer than 2
\* bytes that starts with FF D8, else UnsupportedFileType; a failing
\* construction of the chosen engine is the result, and the segment engine's
\* constructor accepts every buffer routed to it.
C17_DispatchRules ==
    made # Pending /\ reopened = 0 =>
        /\ RoutedToPng => made = PngScrubber_new(input)
        /\ RoutedToJpeg => made = Ok([engine |-> "jpeg", file_bytes |-> input])
        /\ ~RoutedToPng /\ ~RoutedToJpeg => made = Err("UnsupportedFileType")
        /\ made.kind = "ok" /\ made.val.engine = "png" => RoutedToPng
        /\ made.kind = "ok" /\ made.val.engine = "jpeg" => RoutedToJpeg
        /\ made.kind = "ok" => made.val.file_bytes = input

\* C17's case: a buffer routed to the chunk engine whose construction fails,
\* and the failure is the dispatcher's result
C17_Witness ==
    /\ RoutedToPng
    /\ reopened = 0
    /\ PngScrubber_new(input).kind = "err"
    /\ made = PngScrubber_new(input)

\* C18: on every buffer JpegScrubber::new accepts, the scan reads no index at
\* or beyond the buffer's length, a (start, length) it returns has
\* 2 <= start and start + length <= the buffer's length, and scrub's slices
\* and its subtraction stay in range: scrub does not panic.
C18_BoundsSafe ==
    JpegEngine =>
        /\ ScanReads(FileBytes, 2) < Len(FileBytes)
        /\ Found.some =>
               /\ 2 <= Found.val.start
               /\ Found.val.start + Found.val.length <= Len(FileBytes)
        /\ scrubbed # Pending => scrubbed.kind = "ok"
        /\ JpegScrubber_scrub(FileBytes) # Err("panic")

\* C18's case: an APP1 segment whose length field runs past the buffer was
\* scanned up to the length field, and scrub returned
C18_Witness ==
    /\ JpegEngine
    /\ FileBytes = SOI \o ExifCut
    /\ ScanReads(FileBytes, 2) = 5
    /\ scrubbed.kind = "ok"

\* C19: the scan reports a segment as the target only if its marker type is
\* 0xE1, its length field L is at least 8 and the 6 bytes behind the length
\* field are "Exif\0\0": the identifier bytes compared lie inside the
\* segment's own span [offset, offset + 2 + L).
C19_TargetCriteria ==
    JpegEngine /\ Found.some =>
        LET s == Found.val.start
            L == U16(FileBytes, s + 2, TRUE)
        IN /\ At(FileBytes, s) = 255 /\ At(FileBytes, s + 1) = 225
           /\ L >= 8
           /\ Slice(FileBytes, s + 4, s + 10) = ExifSig
           /\ s + 10 <= s + 2 + L

\* the ways the scan gives up, as the line it writes for each
ScanGaveUp ==
    {<<"DBG: Invalid marker start at offset">>,
     <<"DBG: Corrupt length field at offset">>,
     <<"DBG: EXIF APP1 segment not found">>}

\* C20: a scan that ends without a match, for whichever reason, reports "not
\* found" and raises no error, and scrub then returns Ok with
\* cleaned_file_bytes an exact copy of the stored input.
C20_NotFoundIsOk ==
    JpegEngine /\ ~Found.some =>
        /\ Found = None
        /\ find_exif_segment_stderr(FileBytes) \in ScanGaveUp
        /\ scrubbed # Pending =>
               /\ scrubbed.kind = "ok"
               /\ scrubbed.val.cleaned_file_bytes = FileBytes

\* C20's case: the scan gave up at a corrupt length field and scrub returned
\* the copy
C20_Witness ==
    /\ JpegEngine
    /\ ~Found.some
    /\ stderr = <<"DBG: Corrupt length field at offset",
                  "DBG (scrub): No EXIF segment found">>
    /\ scrubbed.kind = "ok"
    /\ scrubbed.val.cleaned_file_bytes = FileBytes


\* a marker type that stands alone, with no length field and no payload
IsStandalone(marker) == marker \in 208..215 \/ marker = 1

\* a marker at offset o of b with all 4 bytes of marker and length field inside b
MarkerAt(b, o) == o + 4 <= Len(b) /\ At(b, o) = 255

\* a segment at offset o of b whose length field is at least 2 and whose span
\* lies inside b
WellFormedAt(b, o) ==
    /\ MarkerAt(b, o)
    /\ U16(b, o + 2, TRUE) >= 2
    /\ o + 2 + U16(b, o + 2, TRUE) <= Len(b)

\* an EXIF APP1 segment at offset o of b, by the test the scan applies
ExifAt(b, o) ==
    /\ WellFormedAt(b, o)
    /\ At(b, o + 1) = 225
    /\ U16(b, o + 2, TRUE) >= ExifMinLength
    /\ o + 10 <= Len(b)
    /\ Slice(b, o + 4, o + 10) = ExifSig

\* The walk that stops at the marker types in `stops` and nowhere else: the
\* offset of the first EXIF APP1 segment it comes to behind standalone
\* markers and well-formed segments, None if it stops or breaks off before.
RECURSIVE WalkTo(_, _, _)
WalkTo(b, o, stops) ==
    IF ~MarkerAt(b, o) THEN None
    ELSE IF IsStandalone(At(b, o + 1)) THEN WalkTo(b, o + 2, stops)
    ELSE IF At(b, o + 1) \in stops THEN None
    ELSE IF ~WellFormedAt(b, o) THEN None
    ELSE IF ExifAt(b, o) THEN Some(o)
    ELSE WalkTo(b, o + 2 + U16(b, o + 2, TRUE), stops)

\* the scan's result is the one of the walk that stops at `stops`
ScanFollows(stops) ==
    scan.pc = "done" =>
        LET walk == WalkTo(FileBytes, 2, stops) IN
        /\ scan.result.some <=> walk.some
        /\ scan.result.some => scan.result.val.start = walk.val

\* one iteration of the scan moves as the walk that stops at `stops` does
ScanMoves(stops) ==
    scan.pc = "loop" /\ scan' # scan /\ MarkerAt(FileBytes, scan.offset) =>
        LET o == scan.offset
            marker == At(FileBytes, o + 1)
        IN IF IsStandalone(marker)
           THEN Position(scan') = ScanAt(o + 2)
           ELSE IF marker \in stops
           THEN Position(scan') = ScanDone(o, None)
           ELSE WellFormedAt(FileBytes, o) /\ ~ExifAt(FileBytes, o) =>
                    Position(scan') = ScanAt(o + 2 + U16(FileBytes, o + 2, TRUE))

\* C21: the scan walks the markers in order from offset 2, passing each
\* standalone marker (type 0xD0-0xD7 or 0x01) by exactly 2 bytes and each
\* other segment by 2 + L bytes, and stops at the first marker of type
\* 0xDA: an EXIF APP1 segment behind the first FF DA is never reported nor
\* removed, one before it, behind any sequence of well-formed segments and
\* standalone markers, is found.
C21_ScanStopsAtSOS == [][ScanMoves({218})]_vars /\ []ScanFollows({218})


\* scrub removes a segment exactly when the walk that stops at `stops` comes
\* to an EXIF APP1 segment, and then at that segment's offset
ScrubFollows(stops) ==
    scan.pc = "done" /\ scrubbed # Pending =>
        LET walk == WalkTo(FileBytes, 2, stops) IN
        /\ scrubbed.kind = "ok"
        /\ ~walk.some => scrubbed.val.cleaned_file_bytes = FileBytes
        /\ walk.some =>
               /\ Len(scrubbed.val.cleaned_file_bytes) < Len(FileBytes)
               /\ Slice(scrubbed.val.cleaned_file_bytes, 0, walk.val)
                      = Slice(FileBytes, 0, walk.val)
               /\ ~ExifAt(scrubbed.val.cleaned_file_bytes, walk.val)

\* C21, with both stopping markers: the scan walks the markers in order from
\* offset 2, passing each standalone marker (type 0xD0-0xD7 or 0x01) by
\* exactly 2 bytes and each other segment by 2 + L bytes, and stops at the
\* first marker of type 0xDA or 0xD9: an EXIF APP1 segment behind that marker
\* is never reported nor removed, one before it, behind any sequence of
\* well-formed segments and standalone markers, is found and removed.
C21_ScanStopsAtSOSOrEOI ==
    /\ [][ScanMoves({217, 218})]_vars
    /\ []ScanFollows({217, 218})
    /\ []ScrubFollows({217, 218})

\* C21's case: behind a standalone marker the scan came to FF DA and stopped
\* there; the EXIF APP1 segment behind it was not reported, and scrub
\* left it where it was
C21_Witness ==
    /\ FileBytes = SOI \o TEM \o SOS \o ExifTiff
    /\ ExifAt(FileBytes, 6)
    /\ Position(scan) = ScanDone(4, None)
    /\ scrubbed.kind = "ok"
    /\ scrubbed.val.cleaned_file_bytes = FileBytes


\* an iteration of the loop ends the scan or moves the offset forward, by 2
\* at a standalone marker, by 2 + L with L >= 2 at any other
ScanAdvances ==
    scan.pc = "loop" /\ scan' # scan =>
        \/ scan'.pc = "done"
        \/ /\ scan'.pc = "loop"
           /\ MarkerAt(FileBytes, scan.offset)
           /\ IF IsStandalone(At(FileBytes, scan.offset + 1))
              THEN scan'.offset = scan.offset + 2
              ELSE /\ U16(FileBytes, scan.offset + 2, TRUE) >= 2
                   /\ scan'.offset
                          = scan.offset + 2 + U16(FileBytes, scan.offset + 2, TRUE)

\* the offset stays inside the buffer, and the iterations made so far are
\* bounded by the buffer's length
ScanBounded ==
    scan.pc # "idle" =>
        /\ 2 <= scan.offset /\ scan.offset <= Len(FileBytes)
        /\ 2 * scan.iterations <= scan.offset
        /\ scan.iterations <= Len(FileBytes)

\* C22: the segment scan terminates on every finite buffer: each iteration of
\* the loop in find_exif_segment returns, breaks, or strictly increases the
\* offset (by 2 at a standalone marker, by 2 + L with L >= 2 otherwise), so
\* the number of iterations is bounded by the buffer's length, the scan
\* returns, and scrub completes.
C22_ScanTerminates ==
    /\ [][ScanAdvances]_vars
    /\ []ScanBounded
    /\ (scan.pc = "loop" ~> scan.pc = "done")
    /\ (scan.pc = "loop" ~> scrubbed # Pending)

\* C22's case: the scan made three iterations, over a standalone marker and
\* a segment to the end of the buffer, and scrub has returned
C22_Witness ==
    /\ FileBytes = SOI \o RST0 \o DQT \o Len2
    /\ scan.pc = "done"
    /\ scan.offset = Len(FileBytes)
    /\ scan.iterations = 3
    /\ scrubbed.kind = "ok"

====
